---- MODULE Spec2Model ----
(***************************************************************************)
(* A model of agent/exec/container/adapter.go: the containerAdapter of the *)
(* swarm agent.  The parts of the adapter are modelled one by one:          *)
(*                                                                         *)
(*   - the event relay (events): the goroutine that decodes the remote     *)
(*     event feed and hands each record to the consumer over an            *)
(*     unbuffered channel, together with its environment (the remote       *)
(*     feed, the consumer, the context);                                   *)
(*   - the network provisioner (createNetworks, removeNetworks) and the    *)
(*     two error classifiers, together with the remote's network state;    *)
(*   - the image puller (pullImage) and the pull stream it decodes;        *)
(*   - the lifecycle controller (create, start, inspect, shutdown,         *)
(*     terminate, remove) and the timeout resolver (resolveTimeout).       *)
(***************************************************************************)
EXTENDS Integers, Sequences, FiniteSets, TLC

(***************************************************************************)
(* Bounds of the model.                                                    *)
(***************************************************************************)
\* The largest number of records the remote feed produces.
MaxFeed == 3
\* The number of distinct record values.
MaxRec == 2
\* The longest list of networks a configuration declares.
MaxNets == 2
\* The largest number of createNetworks/removeNetworks calls in one run.
MaxOps == 2
\* The longest pull stream, in items.
MaxPull == 3
\* The largest number of lifecycle operations in one run.
MaxCalls == 3
\* The furthest deadlines of a context: about 2^MaxSecExp seconds from now.
MaxSecExp == 24
\* The closest a time left comes to the next whole second, from 1 to MaxGap
\* nanoseconds below it.
MaxGap == 2

Records == 1..MaxRec

VARIABLES
    \* ---- event relay -------------------------------------------------
    feed,        \* the records the remote feed has produced so far
    feedEnd,     \* "open", or how the stream ended: "eof", "malformed"
    ctxDone,     \* the context passed to events is cancelled
    evOpen,      \* "none": events not called; "ok"/"err": c.client.Events
    pc,          \* the decode task: "idle","start","decode","deliver",
                 \* "closing" (returned, close(closed) done, in rc.Close()),
                 \* "exited"
    pos,         \* number of records the task has decoded
    event,       \* the decoded record the task holds (0: none)
    receiving,   \* the consumer is blocked in a receive on eventsq
    delivered,   \* the records the consumer has received, in order
    closed,      \* number of times close(closed) has run
    rcClosed,    \* rc.Close() has run
    logged,      \* number of "error decoding event" lines logged
    exitReason,  \* which return statement ended the task
    cancelPc,    \* history: the task's pc when the context was cancelled
    cancelDelivered, \* history: Len(delivered) when the context was cancelled
    eventsqClosed, \* close(eventsq) has run
    \* ---- network provisioner -----------------------------------------
    networks,    \* c.container.networks(): the declared networks, in order
    optsFail,    \* networks for which networkCreateOptions returns an error
    existing,    \* the networks that exist on the remote
    inUse,       \* the remote networks that have active endpoints
    netOp,       \* "none", "create", "remove": the operation in progress/last
    netState,    \* "idle", "running", "done"
    idx,         \* the loop index of the operation in progress
    calls,       \* the remote calls issued by the operation: [net, err]
    result,      \* the error the operation returned (<<>>: nil)
    netLogged,   \* number of "network ... remove failed" lines logged
    createdOk,   \* history: number of createNetworks calls that returned nil
    nOps,        \* number of network operations started
    \* ---- image puller ------------------------------------------------
    stream,      \* the items of the pull stream, in order
    pullState,   \* "idle", "reading", "done"
    pullPos,     \* number of items of the stream decoded successfully
    m,           \* the map the records are decoded into
    progress,    \* number of "pull progress" lines logged
    pullResult,  \* what pullImage returned
    pullCtxDone, \* the context passed to pullImage is cancelled
    pullCancelPos, \* history: pullPos when the context was cancelled (-1: not)
    \* ---- lifecycle controller, timeout resolver ----------------------
    opLog,       \* the operations that returned, with what they returned
    remoteLog,   \* the container calls issued to the remote, with the answers
    sdState,     \* shutdown: "idle", "blocked", "resolved"
    hasDeadline, \* the context of shutdown carries a deadline
    left,        \* deadline.Sub(time.Now()): [sec, nsec], see Lefts
    ctxErr,      \* ctx.Err() of that context ("none": not done)
    tmResult     \* what resolveTimeout returned

evVars == <<feed, feedEnd, ctxDone, evOpen, pc, pos, event, receiving,
            delivered, closed, rcClosed, logged, exitReason, cancelPc,
            cancelDelivered, eventsqClosed>>
netVars == <<networks, optsFail, existing, inUse, netOp, netState, idx,
             calls, result, netLogged, createdOk, nOps>>
pullVars == <<stream, pullState, pullPos, m, progress, pullResult,
              pullCtxDone, pullCancelPos>>
lcVars == <<opLog, remoteLog, sdState, hasDeadline, left, ctxErr, tmResult>>
vars == <<evVars, netVars, pullVars, lcVars>>

(***************************************************************************)
(* The event relay.                                                        *)
(***************************************************************************)

\* The state right after an adapter is constructed: no feed opened, no task.
EvInit ==
    /\ feed = <<>>
    /\ feedEnd = "open"
    /\ ctxDone = FALSE
    /\ evOpen = "none"
    /\ pc = "idle"
    /\ pos = 0
    /\ event = 0
    /\ receiving = FALSE
    /\ delivered = <<>>
    /\ closed = 0
    /\ rcClosed = FALSE
    /\ logged = 0
    /\ exitReason = "none"
    /\ cancelPc = "none"
    /\ cancelDelivered = -1
    /\ eventsqClosed = FALSE

\* events(ctx), lines 142-195, up to the go statement: the channels are made,
\* the feed is opened; on an error nothing is started and (nil, nil, err) is
\* returned, otherwise the decode task is spawned.
EventsOpenOk ==
    /\ evOpen = "none"
    /\ evOpen' = "ok"
    /\ pc' = "start"
    /\ UNCHANGED <<feed, feedEnd, ctxDone, pos, event, receiving, delivered,
                   closed, rcClosed, logged, exitReason, cancelPc,
                   cancelDelivered>>
    /\ UNCHANGED <<eventsqClosed, netVars, pullVars, lcVars>>

EventsOpenErr ==
    /\ evOpen = "none"
    /\ evOpen' = "err"
    /\ UNCHANGED <<feed, feedEnd, ctxDone, pc, pos, event, receiving,
                   delivered, closed, rcClosed, logged, exitReason, cancelPc,
                   cancelDelivered>>
    /\ UNCHANGED <<eventsqClosed, netVars, pullVars, lcVars>>

\* A return of the task.  The deferred calls run last-in first-out: the
\* return runs close(closed) (line 163) first; rc.Close() (line 162) is
\* still to come and is a step of its own, RcClose.
TaskExit(reason) ==
    /\ pc' = "closing"
    /\ closed' = closed + 1
    /\ exitReason' = reason
    /\ event' = 0
    /\ UNCHANGED rcClosed

\* The task has returned from its body (its deferred calls run or running).
TaskReturned == pc \in {"closing", "exited"}

\* A start-up check that does not look at the context.
StartCheckIgnoresCtx ==
    /\ pc = "start"
    /\ pc' = "decode"
    /\ UNCHANGED <<feed, feedEnd, ctxDone, evOpen, pos, event, receiving,
                   delivered, closed, rcClosed, logged, exitReason, cancelPc,
                   cancelDelivered>>
    /\ UNCHANGED <<eventsqClosed, netVars, pullVars, lcVars>>

\* Lines 165-170: select { case <-ctx.Done(): return; default: }.
StartCheck ==
    /\ pc = "start"
    /\ IF ctxDone
         THEN /\ TaskExit("ctx-start")
              /\ UNCHANGED <<pos, logged>>
         ELSE /\ pc' = "decode"
              /\ UNCHANGED <<pos, event, closed, rcClosed, logged, exitReason>>
    /\ UNCHANGED <<feed, feedEnd, ctxDone, evOpen, receiving, delivered,
                   cancelPc, cancelDelivered>>
    /\ UNCHANGED <<eventsqClosed, netVars, pullVars, lcVars>>

\* Line 176, dec.Decode(&event) returning a record: the next record of the
\* feed.  The call blocks while the feed is open and has nothing unread; it
\* does not look at the context.
DecodeRecord ==
    /\ pc = "decode"
    /\ pos < Len(feed)
    /\ event' = feed[pos + 1]
    /\ pos' = pos + 1
    /\ pc' = "deliver"
    /\ UNCHANGED <<feed, feedEnd, ctxDone, evOpen, receiving, delivered,
                   closed, rcClosed, logged, exitReason, cancelPc,
                   cancelDelivered>>
    /\ UNCHANGED <<eventsqClosed, netVars, pullVars, lcVars>>

\* An end-of-stream return that closes the event channel as well.
DecodeEOFClosesEventsq ==
    /\ pc = "decode"
    /\ pos = Len(feed)
    /\ feedEnd = "eof"
    /\ TaskExit("eof")
    /\ eventsqClosed' = TRUE
    /\ UNCHANGED <<feed, feedEnd, ctxDone, evOpen, pos, receiving, delivered,
                   logged, cancelPc, cancelDelivered>>
    /\ UNCHANGED <<netVars, pullVars, lcVars>>

\* Lines 176-180: Decode returns io.EOF, the task returns without logging.
DecodeEOF ==
    /\ pc = "decode"
    /\ pos = Len(feed)
    /\ feedEnd = "eof"
    /\ TaskExit("eof")
    /\ UNCHANGED <<feed, feedEnd, ctxDone, evOpen, pos, receiving, delivered,
                   logged, cancelPc, cancelDelivered>>
    /\ UNCHANGED <<eventsqClosed, netVars, pullVars, lcVars>>

\* A decode-error return that skips the deferred close(closed).
DecodeErrNoClose ==
    /\ pc = "decode"
    /\ pos = Len(feed)
    /\ feedEnd = "malformed"
    /\ logged' = logged + 1
    /\ pc' = "closing"
    /\ exitReason' = "decode-error"
    /\ UNCHANGED <<feed, feedEnd, ctxDone, evOpen, pos, event, receiving,
                   delivered, closed, rcClosed, cancelPc, cancelDelivered>>
    /\ UNCHANGED <<eventsqClosed, netVars, pullVars, lcVars>>

\* Lines 176-184: Decode returns another error (malformed framing): the
\* task logs it and returns.
DecodeErr ==
    /\ pc = "decode"
    /\ pos = Len(feed)
    /\ feedEnd = "malformed"
    /\ logged' = logged + 1
    /\ TaskExit("decode-error")
    /\ UNCHANGED <<feed, feedEnd, ctxDone, evOpen, pos, receiving, delivered,
                   cancelPc, cancelDelivered>>
    /\ UNCHANGED <<eventsqClosed, netVars, pullVars, lcVars>>

\* A delivery that keeps the record and stays at the send.
DeliverAgain ==
    /\ pc = "deliver"
    /\ receiving
    /\ delivered' = Append(delivered, event)
    /\ receiving' = FALSE
    /\ UNCHANGED <<feed, feedEnd, ctxDone, evOpen, pc, pos, event, closed,
                   rcClosed, logged, exitReason, cancelPc, cancelDelivered>>
    /\ UNCHANGED <<eventsqClosed, netVars, pullVars, lcVars>>

\* A send that does not wait: with no consumer receiving, the record is
\* dropped and the task goes on to the next Decode.
DeliverNonBlocking ==
    /\ pc = "deliver"
    /\ delivered' = IF receiving THEN Append(delivered, event) ELSE delivered
    /\ receiving' = FALSE
    /\ event' = 0
    /\ pc' = "decode"
    /\ UNCHANGED <<feed, feedEnd, ctxDone, evOpen, pos, closed, rcClosed,
                   logged, exitReason, cancelPc, cancelDelivered>>
    /\ UNCHANGED <<eventsqClosed, netVars, pullVars, lcVars>>

\* Lines 186-187: case eventsq <- event.  eventsq is unbuffered (line 146):
\* the send completes only with a consumer blocked in a receive.  The task
\* then loops to the next Decode.
Deliver ==
    /\ pc = "deliver"
    /\ receiving
    /\ delivered' = Append(delivered, event)
    /\ receiving' = FALSE
    /\ event' = 0
    /\ pc' = "decode"
    /\ UNCHANGED <<feed, feedEnd, ctxDone, evOpen, pos, closed, rcClosed,
                   logged, exitReason, cancelPc, cancelDelivered>>
    /\ UNCHANGED <<eventsqClosed, netVars, pullVars, lcVars>>

\* A send that is not in a select with ctx.Done(): no cancellation case.
NoCancelCase ==
    /\ pc = "deliver"
    /\ FALSE
    /\ UNCHANGED vars

\* Lines 188-189: case <-ctx.Done(): return.  When a consumer is receiving
\* as well, both cases of the select are ready and either may be taken.
CancelExit ==
    /\ pc = "deliver"
    /\ ctxDone
    /\ TaskExit("ctx-deliver")
    /\ UNCHANGED <<feed, feedEnd, ctxDone, evOpen, pos, receiving, delivered,
                   logged, cancelPc, cancelDelivered>>
    /\ UNCHANGED <<eventsqClosed, netVars, pullVars, lcVars>>

\* Line 162: the deferred rc.Close(), the last thing the task does; it runs
\* after close(closed), so the signal is already closed while the stream is
\* not yet released.
RcClose ==
    /\ pc = "closing"
    /\ rcClosed' = TRUE
    /\ pc' = "exited"
    /\ UNCHANGED <<feed, feedEnd, ctxDone, evOpen, pos, event, receiving,
                   delivered, closed, logged, exitReason, cancelPc,
                   cancelDelivered>>
    /\ UNCHANGED <<eventsqClosed, netVars, pullVars, lcVars>>

\* The steps of the decode task.
Task ==
    \/ StartCheck
    \/ DecodeRecord
    \/ DecodeEOF
    \/ DecodeErr
    \/ Deliver
    \/ CancelExit
    \/ RcClose

\* ---- the environment of the relay ----

\* The caller cancels the context (at any time, also before events is called).
Cancel ==
    /\ ~ctxDone
    /\ ctxDone' = TRUE
    /\ cancelPc' = pc
    /\ cancelDelivered' = Len(delivered)
    /\ UNCHANGED <<feed, feedEnd, evOpen, pc, pos, event, receiving, delivered,
                   closed, rcClosed, logged, exitReason>>
    /\ UNCHANGED <<eventsqClosed, netVars, pullVars, lcVars>>

\* The remote produces one more record on the feed.
FeedProduce ==
    /\ feedEnd = "open"
    /\ Len(feed) < MaxFeed
    /\ \E r \in Records : feed' = Append(feed, r)
    /\ UNCHANGED <<feedEnd, ctxDone, evOpen, pc, pos, event, receiving,
                   delivered, closed, rcClosed, logged, exitReason, cancelPc,
                   cancelDelivered>>
    /\ UNCHANGED <<eventsqClosed, netVars, pullVars, lcVars>>

\* The stream ends: cleanly, or with bytes that do not decode.
FeedEnd ==
    /\ feedEnd = "open"
    /\ \E e \in {"eof", "malformed"} : feedEnd' = e
    /\ UNCHANGED <<feed, ctxDone, evOpen, pc, pos, event, receiving,
                   delivered, closed, rcClosed, logged, exitReason, cancelPc,
                   cancelDelivered>>
    /\ UNCHANGED <<eventsqClosed, netVars, pullVars, lcVars>>

\* The consumer starts a receive on the event channel.
ConsumerRecv ==
    /\ evOpen = "ok"
    /\ ~receiving
    /\ receiving' = TRUE
    /\ UNCHANGED <<feed, feedEnd, ctxDone, evOpen, pc, pos, event, delivered,
                   closed, rcClosed, logged, exitReason, cancelPc,
                   cancelDelivered>>
    /\ UNCHANGED <<eventsqClosed, netVars, pullVars, lcVars>>

EvNext ==
    \/ EventsOpenOk
    \/ EventsOpenErr
    \/ Task
    \/ Cancel
    \/ FeedProduce
    \/ FeedEnd
    \/ ConsumerRecv

(***************************************************************************)
(* The network provisioner.                                                *)
(***************************************************************************)

\* The network names a configuration may declare.
NetNames == {"netA", "netB"}

\* All lists over S of length at most n.
SeqsUpTo(S, n) == UNION {[1..k -> S] : k \in 0..n}

\* An error's text is a sequence of words; the nil error is the empty text.
NilErr == <<>>

\* strings.Contains on texts: sub occurs in s as a contiguous run of words.
Contains(s, sub) ==
    \E i \in 0..(Len(s) - Len(sub)) : SubSeq(s, i + 1, i + Len(sub)) = sub

\* A classifier that never recognises the active-endpoints conflict.
IsActiveEndpointErrorNever(err) == FALSE

\* isActiveEndpointError, lines 103-108.
IsActiveEndpointError(err) == Contains(err, <<"has", "active", "endpoints">>)

\* A classifier that matches "already exists" without the network's name.
IsNetworkExistErrorAnyName(err, name) == Contains(err, <<"already", "exists">>)

\* A classifier that never recognises the already-exists conflict.
IsNetworkExistErrorNever(err, name) == FALSE

\* isNetworkExistError, lines 110-115: the text contains
\* "network with name <name> already exists".
IsNetworkExistError(err, name) ==
    Contains(err, <<"network", "with", "name", name, "already", "exists">>)

\* ---- the remote's answers (the engine's error texts) ----
ExistsMsg(n) ==
    <<"Error", "response", "from", "daemon:", "network", "with", "name", n,
      "already", "exists">>
ActiveMsg(n) ==
    <<"Error", "response", "from", "daemon:", "network", n, "has", "active",
      "endpoints">>
NotFoundMsg(n) ==
    <<"Error", "response", "from", "daemon:", "network", n, "not", "found">>
TransportMsg == <<"cannot", "connect", "to", "the", "daemon">>
\* The error of networkCreateOptions for a network it cannot resolve.
OptsErr == <<"container:", "unknown", "network", "referenced">>

\* What the remote may answer to NetworkCreate(n): the answer its state gives
\* (already exists, or created), or a failure of any other kind.
CreateResponses(n) ==
    (IF n \in existing THEN {ExistsMsg(n)} ELSE {NilErr})
        \cup {TransportMsg, ActiveMsg(n)}
        \cup {ExistsMsg(other) : other \in NetNames}

\* What the remote may answer to NetworkRemove(n): the answer its state gives
\* (not found, still in use, or removed), or a failure of any other kind.
RemoveResponses(n) ==
    (IF n \notin existing THEN {NotFoundMsg(n)}
     ELSE IF n \in inUse THEN {ActiveMsg(n)} ELSE {NilErr})
        \cup {TransportMsg, ActiveMsg(n), ExistsMsg(n)}

\* The adapter right after construction; the remote starts with no network.
NetInit ==
    /\ networks \in SeqsUpTo(NetNames, MaxNets)
    /\ optsFail \in SUBSET NetNames
    /\ existing = {}
    /\ inUse = {}
    /\ netOp = "none"
    /\ netState = "idle"
    /\ idx = 0
    /\ calls = <<>>
    /\ result = NilErr
    /\ netLogged = 0
    /\ createdOk = 0
    /\ nOps = 0

\* The caller invokes createNetworks (line 69).
CreateNetworksCall ==
    /\ netState \in {"idle", "done"}
    /\ nOps < MaxOps
    /\ netOp' = "create"
    /\ netState' = "running"
    /\ idx' = 1
    /\ calls' = <<>>
    /\ result' = NilErr
    /\ nOps' = nOps + 1
    /\ UNCHANGED <<networks, optsFail, existing, inUse, netLogged, createdOk>>
    /\ UNCHANGED <<evVars, pullVars, lcVars>>

\* An iteration that leaves the loop (break) on an absorbed failure instead
\* of going on to the next network (continue).
CreateNetworksStepBreaks ==
    /\ netOp = "create"
    /\ netState = "running"
    /\ idx <= Len(networks)
    /\ LET network == networks[idx] IN
         IF network \in optsFail
           THEN /\ netState' = "done"
                /\ result' = OptsErr
                /\ UNCHANGED <<existing, idx, calls>>
           ELSE \E err \in CreateResponses(network) :
                  /\ calls' = Append(calls, [net |-> network, err |-> err])
                  /\ existing' = IF err = NilErr THEN existing \cup {network}
                                 ELSE existing
                  /\ IF err = NilErr
                       THEN /\ idx' = idx + 1
                            /\ UNCHANGED <<netState, result>>
                       ELSE IF IsNetworkExistError(err, network)
                         THEN /\ idx' = Len(networks) + 1
                              /\ UNCHANGED <<netState, result>>
                         ELSE /\ netState' = "done"
                              /\ result' = err
                              /\ UNCHANGED idx
    /\ UNCHANGED <<networks, optsFail, inUse, netOp, netLogged, createdOk,
                   nOps>>
    /\ UNCHANGED <<evVars, pullVars, lcVars>>

\* One iteration of the loop of createNetworks, lines 70-83: build the
\* options, issue the create call, classify a failure.
CreateNetworksStep ==
    /\ netOp = "create"
    /\ netState = "running"
    /\ idx <= Len(networks)
    /\ LET network == networks[idx] IN
         IF network \in optsFail
           THEN /\ netState' = "done"
                /\ result' = OptsErr
                /\ UNCHANGED <<existing, idx, calls>>
           ELSE \E err \in CreateResponses(network) :
                  /\ calls' = Append(calls, [net |-> network, err |-> err])
                  /\ existing' = IF err = NilErr THEN existing \cup {network}
                                 ELSE existing
                  /\ IF err = NilErr \/ IsNetworkExistError(err, network)
                       THEN /\ idx' = idx + 1
                            /\ UNCHANGED <<netState, result>>
                       ELSE /\ netState' = "done"
                            /\ result' = err
                            /\ UNCHANGED idx
    /\ UNCHANGED <<networks, optsFail, inUse, netOp, netLogged, createdOk,
                   nOps>>
    /\ UNCHANGED <<evVars, pullVars, lcVars>>

\* Line 85: the loop of createNetworks is over, return nil.
CreateNetworksReturn ==
    /\ netOp = "create"
    /\ netState = "running"
    /\ idx > Len(networks)
    /\ netState' = "done"
    /\ result' = NilErr
    /\ createdOk' = createdOk + 1
    /\ UNCHANGED <<networks, optsFail, existing, inUse, netOp, idx, calls,
                   netLogged, nOps>>
    /\ UNCHANGED <<evVars, pullVars, lcVars>>

\* The caller invokes removeNetworks (line 88).
RemoveNetworksCall ==
    /\ netState \in {"idle", "done"}
    /\ nOps < MaxOps
    /\ netOp' = "remove"
    /\ netState' = "running"
    /\ idx' = 1
    /\ calls' = <<>>
    /\ result' = NilErr
    /\ nOps' = nOps + 1
    /\ UNCHANGED <<networks, optsFail, existing, inUse, netLogged, createdOk>>
    /\ UNCHANGED <<evVars, pullVars, lcVars>>

\* One iteration of the loop of removeNetworks, lines 89-98: issue the
\* remove call, classify a failure, log and return any other error.
RemoveNetworksStep ==
    /\ netOp = "remove"
    /\ netState = "running"
    /\ idx <= Len(networks)
    /\ LET nid == networks[idx] IN
         \E err \in RemoveResponses(nid) :
           /\ calls' = Append(calls, [net |-> nid, err |-> err])
           /\ existing' = IF err = NilErr THEN existing \ {nid} ELSE existing
           /\ IF err = NilErr \/ IsActiveEndpointError(err)
                THEN /\ idx' = idx + 1
                     /\ UNCHANGED <<netState, result, netLogged>>
                ELSE /\ netLogged' = netLogged + 1
                     /\ netState' = "done"
                     /\ result' = err
                     /\ UNCHANGED idx
    /\ UNCHANGED <<networks, optsFail, inUse, netOp, createdOk, nOps>>
    /\ UNCHANGED <<evVars, pullVars, lcVars>>

\* Line 100: the loop of removeNetworks is over, return nil.
RemoveNetworksReturn ==
    /\ netOp = "remove"
    /\ netState = "running"
    /\ idx > Len(networks)
    /\ netState' = "done"
    /\ result' = NilErr
    /\ UNCHANGED <<networks, optsFail, existing, inUse, netOp, idx, calls,
                   netLogged, createdOk, nOps>>
    /\ UNCHANGED <<evVars, pullVars, lcVars>>

\* ---- the environment: other containers sharing the remote ----

\* Another container's adapter creates a network.
RemoteCreated ==
    /\ \E n \in NetNames \ existing : existing' = existing \cup {n}
    /\ UNCHANGED <<networks, optsFail, inUse, netOp, netState, idx, calls,
                   result, netLogged, createdOk, nOps>>
    /\ UNCHANGED <<evVars, pullVars, lcVars>>

\* Another client removes a network that has no endpoint.
RemoteRemoved ==
    /\ \E n \in existing \ inUse : existing' = existing \ {n}
    /\ UNCHANGED <<networks, optsFail, inUse, netOp, netState, idx, calls,
                   result, netLogged, createdOk, nOps>>
    /\ UNCHANGED <<evVars, pullVars, lcVars>>

\* Another container attaches to a network, or the last one detaches.
RemoteAttached ==
    /\ \E n \in existing \ inUse : inUse' = inUse \cup {n}
    /\ UNCHANGED <<networks, optsFail, existing, netOp, netState, idx, calls,
                   result, netLogged, createdOk, nOps>>
    /\ UNCHANGED <<evVars, pullVars, lcVars>>

RemoteDetached ==
    /\ \E n \in inUse : inUse' = inUse \ {n}
    /\ UNCHANGED <<networks, optsFail, existing, netOp, netState, idx, calls,
                   result, netLogged, createdOk, nOps>>
    /\ UNCHANGED <<evVars, pullVars, lcVars>>

NetNext ==
    \/ CreateNetworksCall
    \/ CreateNetworksStep
    \/ CreateNetworksReturn
    \/ RemoveNetworksCall
    \/ RemoveNetworksStep
    \/ RemoveNetworksReturn
    \/ RemoteCreated
    \/ RemoteRemoved
    \/ RemoteAttached
    \/ RemoteDetached

(***************************************************************************)
(* The image puller.                                                       *)
(***************************************************************************)

\* The value of a key a record does not have.
Absent == "absent"

\* The progress records: JSON objects with a status, an error, both or
\* neither.
PullStatus == {Absent, "Downloading"}
PullErrors == {Absent, "no such image", "unauthorized"}
PullObjects == [kind : {"object"}, status : PullStatus, error : PullErrors]

\* The JSON value null; bytes Decode fails on (malformed framing, a value
\* that is no object, a failed read); the end a transport gives a stream
\* whose context is cancelled.
NullItem == [kind |-> "null", status |-> Absent, error |-> Absent]
BadItem == [kind |-> "bad", status |-> Absent, error |-> Absent]
AbortItem == [kind |-> "aborted", status |-> Absent, error |-> Absent]

\* What a pull stream is made of; after its last item comes io.EOF.
PullItems == PullObjects \cup {NullItem, BadItem}

\* Line 51: m := map[string]interface{}{}.
EmptyMap == [status |-> Absent, error |-> Absent]

\* A Decode that does not overwrite a key the map already has.
DecodeIntoKeepsOld(mm, rec) ==
    IF rec.kind = "null" THEN EmptyMap
    ELSE [status |-> IF mm.status # Absent THEN mm.status ELSE rec.status,
          error |-> IF mm.error # Absent THEN mm.error ELSE rec.error]

\* Line 53, dec.Decode(&m) of one more value into the same map m: a JSON
\* object sets its keys in the map and leaves the map's other entries as
\* they are (encoding/json reuses a non-nil map); null sets m to nil.
DecodeInto(mm, rec) ==
    IF rec.kind = "null" THEN EmptyMap
    ELSE [status |-> IF rec.status # Absent THEN rec.status ELSE mm.status,
          error |-> IF rec.error # Absent THEN rec.error ELSE mm.error]

\* What pullImage returns.
PullRes(kind, val) == [kind |-> kind, val |-> val]

\* Lines 62-66: if m has the key "error", fail with fmt.Errorf("%v", errMsg),
\* the text of its value; otherwise return nil.
FinalInspection(mm) ==
    IF mm.error # Absent THEN PullRes("pull-failed", mm.error)
    ELSE PullRes("nil", "")

\* The adapter before pullImage is called, for any pull stream the remote
\* may send.
PullInit ==
    /\ stream \in SeqsUpTo(PullItems, MaxPull)
    /\ pullState = "idle"
    /\ pullPos = 0
    /\ m = EmptyMap
    /\ progress = 0
    /\ pullResult = PullRes("none", "")
    /\ pullCtxDone = FALSE
    /\ pullCancelPos = -1

\* Lines 42-51: ImagePull succeeds, the decoder and the map are made.
PullOpenOk ==
    /\ pullState = "idle"
    /\ pullState' = "reading"
    /\ m' = EmptyMap
    /\ UNCHANGED <<stream, pullPos, progress, pullResult, pullCtxDone,
                   pullCancelPos>>
    /\ UNCHANGED <<evVars, netVars, lcVars>>

\* Lines 42-48: ImagePull fails, its error is returned.
PullOpenErr ==
    /\ pullState = "idle"
    /\ pullState' = "done"
    /\ pullResult' = PullRes("open-error", "")
    /\ UNCHANGED <<stream, pullPos, m, progress, pullCtxDone, pullCancelPos>>
    /\ UNCHANGED <<evVars, netVars, lcVars>>

\* Lines 52-61, one turn of the loop: Decode succeeds, the progress is
\* logged.  The loop does not look at the context.
PullDecode ==
    /\ pullState = "reading"
    /\ pullPos < Len(stream)
    /\ stream[pullPos + 1].kind \in {"object", "null"}
    /\ m' = DecodeInto(m, stream[pullPos + 1])
    /\ pullPos' = pullPos + 1
    /\ progress' = progress + 1
    /\ UNCHANGED <<stream, pullState, pullResult, pullCtxDone, pullCancelPos>>
    /\ UNCHANGED <<evVars, netVars, lcVars>>

\* A loop that takes a decode error for the end of the stream.
PullDecodeErrBreaks ==
    /\ pullState = "reading"
    /\ pullPos < Len(stream)
    /\ stream[pullPos + 1].kind \in {"bad", "aborted"}
    /\ pullState' = "done"
    /\ pullResult' = FinalInspection(m)
    /\ UNCHANGED <<stream, pullPos, m, progress, pullCtxDone, pullCancelPos>>
    /\ UNCHANGED <<evVars, netVars, lcVars>>

\* Lines 53-58: Decode fails with an error that is not io.EOF; that error
\* is returned (the context's error, when the transport ended the stream
\* for a cancelled context).
PullDecodeErr ==
    /\ pullState = "reading"
    /\ pullPos < Len(stream)
    /\ stream[pullPos + 1].kind \in {"bad", "aborted"}
    /\ pullState' = "done"
    /\ pullResult' = IF stream[pullPos + 1].kind = "aborted"
                       THEN PullRes("cancelled", "")
                       ELSE PullRes("decode-error", "")
    /\ UNCHANGED <<stream, pullPos, m, progress, pullCtxDone, pullCancelPos>>
    /\ UNCHANGED <<evVars, netVars, lcVars>>

\* Lines 53-56 and 62-66: Decode returns io.EOF, the loop ends and the map
\* is inspected.
PullEOF ==
    /\ pullState = "reading"
    /\ pullPos = Len(stream)
    /\ pullState' = "done"
    /\ pullResult' = FinalInspection(m)
    /\ UNCHANGED <<stream, pullPos, m, progress, pullCtxDone, pullCancelPos>>
    /\ UNCHANGED <<evVars, netVars, lcVars>>

\* ---- the environment of the pull ----

\* The caller cancels the context while pullImage reads the stream.
PullCancel ==
    /\ pullState = "reading"
    /\ ~pullCtxDone
    /\ pullCtxDone' = TRUE
    /\ pullCancelPos' = pullPos
    /\ UNCHANGED <<stream, pullState, pullPos, m, progress, pullResult>>
    /\ UNCHANGED <<evVars, netVars, lcVars>>

\* The transport may end the stream of a cancelled context: what was not
\* read yet is replaced by a read that fails with the context's error.
PullAbort ==
    /\ pullState = "reading"
    /\ pullCtxDone
    /\ stream # Append(SubSeq(stream, 1, pullPos), AbortItem)
    /\ stream' = Append(SubSeq(stream, 1, pullPos), AbortItem)
    /\ UNCHANGED <<pullState, pullPos, m, progress, pullResult, pullCtxDone,
                   pullCancelPos>>
    /\ UNCHANGED <<evVars, netVars, lcVars>>

PullNext ==
    \/ PullOpenOk
    \/ PullOpenErr
    \/ PullDecode
    \/ PullDecodeErr
    \/ PullEOF
    \/ PullCancel
    \/ PullAbort

\* The image puller at rest: pullImage is not called.
PullRest ==
    /\ stream = <<>>
    /\ pullState = "idle"
    /\ pullPos = 0
    /\ m = EmptyMap
    /\ progress = 0
    /\ pullResult = PullRes("none", "")
    /\ pullCtxDone = FALSE
    /\ pullCancelPos = -1

(***************************************************************************)
(* The lifecycle controller and the timeout resolver.                      *)
(***************************************************************************)

\* c.container.name().
ContainerName == "task-container"

\* Line 223: the timeout when the context has no deadline.
DefaultTimeout == 10

\* The errors of the remote's container calls ("nil": success), and the
\* state snapshots of an inspect.
LcErrs == {"nil", "no such container", "conflict"}
Snapshots == {"running", "exited"}

\* What the remote answers to a call: an error and, for an inspect or a
\* create, a body.
Answers(bodies) == [err : LcErrs, body : bodies]

\* A call to the remote as the client sees it, with the answer it got.
RemoteCall(api, timeout, opt, ans) ==
    [api |-> api, name |-> ContainerName, timeout |-> timeout, opt |-> opt,
     ans |-> ans]

\* An operation that has returned: its result, the number of remote calls
\* issued before it started and, for shutdown, what resolveTimeout gave.
Returned(op, err, body, tm) ==
    [op |-> op, err |-> err, body |-> body, at |-> Len(remoteLog), tm |-> tm]

\* resolveTimeout has not returned.
NoTimeout == [timeout |-> -1, err |-> "none"]

\* time.Second: the nanoseconds in a second, the unit of time.Duration.
NanosPerSec == 1000000000

\* The bits of precision of a float64, the type of Duration.Seconds().
MantissaBits == 53

\* A time.Duration of sec * NanosPerSec + nsec nanoseconds, 0 <= nsec <
\* NanosPerSec (a negative duration has sec < 0).
Duration(sec, nsec) == [sec |-> sec, nsec |-> nsec]
ZeroLeft == Duration(0, 0)

\* The lifecycle controller and the resolver before any call.
LcInit ==
    /\ opLog = <<>>
    /\ remoteLog = <<>>
    /\ sdState = "idle"
    /\ hasDeadline = FALSE
    /\ left = ZeroLeft
    /\ ctxErr = "none"
    /\ tmResult = NoTimeout

\* The caller may start an operation.
CanCall == sdState = "idle" /\ Len(opLog) < MaxCalls

\* A create that tries once more when the remote fails.
CreateRetries ==
    /\ CanCall
    /\ \E ans \in Answers({"id"}), again \in Answers({"id"}) :
         /\ remoteLog' =
              IF ans.err = "nil"
                THEN Append(remoteLog, RemoteCall("ContainerCreate", -1,
                                "config,hostConfig,networkingConfig", ans))
                ELSE remoteLog
                       \o <<RemoteCall("ContainerCreate", -1,
                                "config,hostConfig,networkingConfig", ans),
                            RemoteCall("ContainerCreate", -1,
                                "config,hostConfig,networkingConfig", again)>>
         /\ opLog' = Append(opLog,
                Returned("create",
                         IF ans.err = "nil" THEN "nil" ELSE again.err,
                         "-", NoTimeout))
    /\ UNCHANGED <<sdState, hasDeadline, left, ctxErr, tmResult>>
    /\ UNCHANGED <<evVars, netVars, pullVars>>

\* create, lines 117-127: one ContainerCreate with the configuration and
\* the name; the response is dropped, the error returned.
Create ==
    /\ CanCall
    /\ \E ans \in Answers({"id"}) :
         /\ remoteLog' = Append(remoteLog,
                RemoteCall("ContainerCreate", -1,
                           "config,hostConfig,networkingConfig", ans))
         /\ opLog' = Append(opLog, Returned("create", ans.err, "-", NoTimeout))
    /\ UNCHANGED <<sdState, hasDeadline, left, ctxErr, tmResult>>
    /\ UNCHANGED <<evVars, netVars, pullVars>>

\* start, lines 129-131.
Start ==
    /\ CanCall
    /\ \E ans \in Answers({"-"}) :
         /\ remoteLog' = Append(remoteLog,
                RemoteCall("ContainerStart", -1, "", ans))
         /\ opLog' = Append(opLog, Returned("start", ans.err, "-", NoTimeout))
    /\ UNCHANGED <<sdState, hasDeadline, left, ctxErr, tmResult>>
    /\ UNCHANGED <<evVars, netVars, pullVars>>

\* inspect, lines 133-135: the snapshot and the error, as the remote gave
\* them.
Inspect ==
    /\ CanCall
    /\ \E ans \in Answers(Snapshots) :
         /\ remoteLog' = Append(remoteLog,
                RemoteCall("ContainerInspect", -1, "", ans))
         /\ opLog' = Append(opLog,
                Returned("inspect", ans.err, ans.body, NoTimeout))
    /\ UNCHANGED <<sdState, hasDeadline, left, ctxErr, tmResult>>
    /\ UNCHANGED <<evVars, netVars, pullVars>>

\* terminate, lines 209-211: ContainerKill with the default signal.
Terminate ==
    /\ CanCall
    /\ \E ans \in Answers({"-"}) :
         /\ remoteLog' = Append(remoteLog,
                RemoteCall("ContainerKill", -1, "signal=", ans))
         /\ opLog' = Append(opLog,
                Returned("terminate", ans.err, "-", NoTimeout))
    /\ UNCHANGED <<sdState, hasDeadline, left, ctxErr, tmResult>>
    /\ UNCHANGED <<evVars, netVars, pullVars>>

\* remove, lines 213-218: ContainerRemove, volumes removed, forced.
Remove ==
    /\ CanCall
    /\ \E ans \in Answers({"-"}) :
         /\ remoteLog' = Append(remoteLog,
                RemoteCall("ContainerRemove", -1, "RemoveVolumes,Force", ans))
         /\ opLog' = Append(opLog, Returned("remove", ans.err, "-", NoTimeout))
    /\ UNCHANGED <<sdState, hasDeadline, left, ctxErr, tmResult>>
    /\ UNCHANGED <<evVars, netVars, pullVars>>

\* The values of deadline.Sub(time.Now()): a deadline passed, reached now,
\* ahead by up to two seconds, and ahead by 2^MaxSecExp seconds or more; on
\* a whole second and a few nanoseconds below the next.
Lefts ==
    {Duration(0 - 1, NanosPerSec \div 2)} \cup
    {Duration(sec, nsec) :
        sec \in {0, 1, 2^MaxSecExp},
        nsec \in {0} \cup {NanosPerSec - g : g \in 1..MaxGap}}

\* Line 227: left <= 0.
DeadlinePassed(l) == l.sec < 0 \/ (l.sec = 0 /\ l.nsec = 0)

\* The binary exponent of n >= 1: 2^Exponent(n) <= n < 2^(Exponent(n) + 1).
RECURSIVE Exponent(_)
Exponent(n) == IF n < 2 THEN 0 ELSE 1 + Exponent(n \div 2)

\* Line 232, left.Seconds() for left > 0: float64(sec) + float64(nsec)/1e9,
\* rounded to the nearest float64.  Next to sec the float64 values are
\* 2^(Exponent(sec) - 52) apart, so the sum is rounded up to sec + 1 when
\* the fraction is less than half of that below 1:
\*   (NanosPerSec - nsec) * 2^(MantissaBits - Exponent(sec)) < NanosPerSec.
\* For sec < 2^24 the factor is 2^30 or more, above NanosPerSec, and the
\* sum is never rounded up to the next whole second.
SecondsRoundsUp(l) ==
    /\ l.sec >= 1
    /\ l.nsec > 0
    /\ LET k == MantissaBits - Exponent(l.sec)
       IN  /\ k < 30
           /\ NanosPerSec - l.nsec <= (NanosPerSec - 1) \div 2^k

\* Line 232, int(left.Seconds()) for left > 0: the float64 truncated to an
\* int (of 64 bits).
WholeSeconds(l) == IF SecondsRoundsUp(l) THEN l.sec + 1 ELSE l.sec

\* The states a context can be in when shutdown is called with it: with or
\* without a deadline, the deadline ahead or not, done or not yet (a
\* context is done with DeadlineExceeded only once its deadline is reached).
Contexts ==
    {c \in [hasDeadline : BOOLEAN, left : Lefts,
            err : {"none", "context canceled", "context deadline exceeded"}] :
        /\ (~c.hasDeadline) => (c.left = ZeroLeft)
        /\ (c.err = "context deadline exceeded") =>
              (c.hasDeadline /\ DeadlinePassed(c.left))}

\* shutdown calls resolveTimeout (line 198), which reads the deadline and
\* the clock (lines 223-227) and either returns the timeout (lines 232-234)
\* or, the deadline passed, waits for the context to be done (line 228).
ShutdownResolve ==
    /\ CanCall
    /\ \E c \in Contexts :
         /\ hasDeadline' = c.hasDeadline
         /\ left' = c.left
         /\ ctxErr' = c.err
         /\ IF c.hasDeadline /\ DeadlinePassed(c.left)
              THEN /\ sdState' = "blocked"
                   /\ tmResult' = NoTimeout
              ELSE /\ sdState' = "resolved"
                   /\ tmResult' =
                        [timeout |-> IF c.hasDeadline
                                       THEN WholeSeconds(c.left)
                                       ELSE DefaultTimeout,
                         err |-> "nil"]
    /\ UNCHANGED <<opLog, remoteLog>>
    /\ UNCHANGED <<evVars, netVars, pullVars>>

\* The context of a blocked resolveTimeout becomes done: its timer fires,
\* or the caller cancels it.
CtxDone ==
    /\ sdState = "blocked"
    /\ ctxErr = "none"
    /\ \E e \in {"context canceled", "context deadline exceeded"} : ctxErr' = e
    /\ UNCHANGED <<opLog, remoteLog, sdState, hasDeadline, left, tmResult>>
    /\ UNCHANGED <<evVars, netVars, pullVars>>

\* Lines 228-229: <-ctx.Done() returns, resolveTimeout returns 0, ctx.Err().
ResolveUnblock ==
    /\ sdState = "blocked"
    /\ ctxErr # "none"
    /\ tmResult' = [timeout |-> 0, err |-> ctxErr]
    /\ sdState' = "resolved"
    /\ UNCHANGED <<opLog, remoteLog, hasDeadline, left, ctxErr>>
    /\ UNCHANGED <<evVars, netVars, pullVars>>

\* A shutdown that stops the container with the default timeout.
ShutdownStopDefault ==
    /\ sdState = "resolved"
    /\ tmResult.err = "nil"
    /\ \E ans \in Answers({"-"}) :
         /\ remoteLog' = Append(remoteLog,
                RemoteCall("ContainerStop", DefaultTimeout, "", ans))
         /\ opLog' = Append(opLog, Returned("shutdown", ans.err, "-", tmResult))
    /\ sdState' = "idle"
    /\ UNCHANGED <<hasDeadline, left, ctxErr, tmResult>>
    /\ UNCHANGED <<evVars, netVars, pullVars>>

\* shutdown, line 206: ContainerStop with the resolved timeout; its result
\* is returned.
ShutdownStop ==
    /\ sdState = "resolved"
    /\ tmResult.err = "nil"
    /\ \E ans \in Answers({"-"}) :
         /\ remoteLog' = Append(remoteLog,
                RemoteCall("ContainerStop", tmResult.timeout, "", ans))
         /\ opLog' = Append(opLog, Returned("shutdown", ans.err, "-", tmResult))
    /\ sdState' = "idle"
    /\ UNCHANGED <<hasDeadline, left, ctxErr, tmResult>>
    /\ UNCHANGED <<evVars, netVars, pullVars>>

\* shutdown, lines 199-201: resolveTimeout failed, its error is returned.
ShutdownFail ==
    /\ sdState = "resolved"
    /\ tmResult.err # "nil"
    /\ opLog' = Append(opLog, Returned("shutdown", tmResult.err, "-", tmResult))
    /\ sdState' = "idle"
    /\ UNCHANGED <<remoteLog, hasDeadline, left, ctxErr, tmResult>>
    /\ UNCHANGED <<evVars, netVars, pullVars>>

LcNext ==
    \/ Create
    \/ Start
    \/ Inspect
    \/ Terminate
    \/ Remove
    \/ ShutdownResolve
    \/ CtxDone
    \/ ResolveUnblock
    \/ ShutdownStop
    \/ ShutdownFail

(***************************************************************************)
(* The specifications.  The adapter keeps no state of its own, so the      *)
(* parts are checked one at a time, the other part at rest.                *)
(***************************************************************************)

\* The network provisioner at rest: a configuration that declares no network.
NetRest ==
    /\ networks = <<>>
    /\ optsFail = {}
    /\ existing = {}
    /\ inUse = {}
    /\ netOp = "none"
    /\ netState = "idle"
    /\ idx = 0
    /\ calls = <<>>
    /\ result = NilErr
    /\ netLogged = 0
    /\ createdOk = 0
    /\ nOps = 0

EventsInit == EvInit /\ NetRest /\ PullRest /\ LcInit
EventsNext == EvNext

\* The event relay and its environment.
EventsSpec == EventsInit /\ [][EventsNext]_vars

\* The same, with the decode task scheduled fairly: a goroutine that can
\* take a step eventually takes one.  The feed, the consumer and the caller
\* are under no obligation.
EventsFairSpec == EventsSpec /\ WF_vars(Task)

NetworkInit == NetInit /\ EvInit /\ PullRest /\ LcInit
NetworkNext == NetNext

\* The network provisioner and the remote's network state.
NetworkSpec == NetworkInit /\ [][NetworkNext]_vars

PullSpecInit == PullInit /\ EvInit /\ NetRest /\ LcInit
PullSpecNext == PullNext

\* The image puller and its pull stream.
PullSpec == PullSpecInit /\ [][PullSpecNext]_vars

LifecycleInit == LcInit /\ EvInit /\ NetRest /\ PullRest
LifecycleNext == LcNext

\* The lifecycle controller and the timeout resolver.
LifecycleSpec == LifecycleInit /\ [][LifecycleNext]_vars

(***************************************************************************)
(* Properties of the event relay.                                          *)
(***************************************************************************)

\* s is a prefix of t.
IsPrefix(s, t) == Len(s) <= Len(t) /\ SubSeq(t, 1, Len(s)) = s

\* C1: for a feed that was opened, the closed signal is closed exactly once,
\* at the moment the decode task returns and whatever made it return: it is
\* open while the task's body runs, closed from the return on (already
\* while the deferred rc.Close() is still to run), and never closed a
\* second time.  Without an opened feed it is never closed.
C1_ClosedExactlyOnce ==
    /\ closed \in {0, 1}
    /\ (evOpen = "ok") => (TaskReturned <=> (closed = 1))
    /\ (evOpen # "ok") => (closed = 0 /\ pc = "idle")
    /\ TaskReturned =>
          exitReason \in {"ctx-start", "eof", "decode-error", "ctx-deliver"}

\* C1, its case: the task has stopped on malformed framing, logged the
\* error, and the signal is closed.
C1_Witness ==
    /\ pc = "exited"
    /\ exitReason = "decode-error"
    /\ logged = 1
    /\ closed = 1
    /\ Len(delivered) >= 1

\* C2: once the context passed to events is cancelled, the closed signal
\* eventually closes, wherever the decode task is at that moment.
C2_CancelEventuallyCloses ==
    (ctxDone /\ evOpen = "ok") ~> (closed = 1)

\* C3: a consumer that never receives cannot keep the task alive after
\* cancellation: a task that holds a decoded record, with the context
\* cancelled and no consumer receiving, exits and closes the signal with
\* that record undelivered (unless a consumer turns up to receive).
C3_CancelNotBlockedByConsumer ==
    (pc = "deliver" /\ ctxDone /\ ~receiving)
        ~> (receiving \/ (/\ TaskReturned
                          /\ closed = 1
                          /\ exitReason = "ctx-deliver"
                          /\ Len(delivered) = pos - 1))

\* C3, its case: the task has left the send through the cancellation case,
\* the record it held is dropped, and no consumer ever received anything.
C3_Witness ==
    /\ exitReason = "ctx-deliver"
    /\ closed = 1
    /\ ~receiving
    /\ pos = 1
    /\ delivered = <<>>

\* C4 as stated: if the context is cancelled before any record has been
\* delivered, no record is ever delivered.
C4_CancelBeforeDeliveryZeroDelivered ==
    (ctxDone /\ cancelDelivered = 0) => (Len(delivered) = 0)

\* C4 as amended: if the context is cancelled before the decode task has
\* made its start-up check of the context, no record is ever delivered and
\* the closed signal closes.
C4_CancelBeforeStartZeroDelivered ==
    /\ [](cancelPc \in {"idle", "start"} => Len(delivered) = 0)
    /\ (cancelPc \in {"idle", "start"} /\ evOpen = "ok")
          ~> (closed = 1 /\ Len(delivered) = 0 /\ pos = 0)

\* C4, its case: cancelled while the task had not started processing, with
\* records on the feed and a consumer receiving; the task has exited.
C4_Witness ==
    /\ cancelPc = "start"
    /\ exitReason = "ctx-start"
    /\ closed = 1
    /\ Len(feed) >= 1
    /\ receiving
    /\ delivered = <<>>

\* C5: what the consumer has received is a prefix of what the feed
\* produced, and the task reads the next record only when the one before
\* is delivered: at most one record is decoded and undelivered, and that
\* only while the task is at the send (or was cancelled there).
C5_OrderedOneInFlight ==
    /\ IsPrefix(delivered, feed)
    /\ pos <= Len(feed)
    /\ pos - Len(delivered) \in {0, 1}
    /\ (pc = "decode") => (pos = Len(delivered))
    /\ (pc = "deliver") => (pos = Len(delivered) + 1 /\ event = feed[pos])
    /\ (pos = Len(delivered) + 1) =>
          (pc = "deliver" \/ exitReason = "ctx-deliver")

\* C5, its case: two different records delivered in order, a third decoded
\* and in flight.
C5_Witness ==
    /\ Len(delivered) = 2
    /\ delivered[1] # delivered[2]
    /\ pc = "deliver"
    /\ pos = 3

(***************************************************************************)
(* Properties of the network provisioner.                                  *)
(***************************************************************************)

CreateDone == netOp = "create" /\ netState = "done"
RemoveDone == netOp = "remove" /\ netState = "done"

\* The networks of the remote calls issued so far, in the order issued.
CalledNets == [i \in 1..Len(calls) |-> calls[i].net]

\* C6: a createNetworks call that follows a successful one over the same
\* configuration and finds every network there already (every create call
\* it issues is answered "already exists" for that network) returns nil,
\* having gone through the whole list.
C6_SecondCreateSucceeds ==
    (/\ CreateDone
     /\ createdOk >= 1
     /\ \A i \in 1..Len(calls) : calls[i].err = ExistsMsg(calls[i].net))
        => (result = NilErr /\ CalledNets = networks)

\* C6, its case: the second of two successful createNetworks calls, both of
\* whose create calls were answered "already exists".
C6_Witness ==
    /\ CreateDone
    /\ createdOk = 2
    /\ Len(networks) = 2
    /\ Len(calls) = 2
    /\ \A i \in 1..2 : calls[i].err = ExistsMsg(networks[i])
    /\ result = NilErr

\* C7: the create calls are issued one per declared network in declaration
\* order; when each is answered either with success or with "already
\* exists" for that network, createNetworks returns nil after a call for
\* every declared network.
C7_CreateMixedSucceeds ==
    /\ (netOp = "create") => IsPrefix(CalledNets, networks)
    /\ (/\ CreateDone
        /\ \A i \in 1..Len(networks) : networks[i] \notin optsFail
        /\ \A i \in 1..Len(calls) :
              calls[i].err \in {NilErr, ExistsMsg(calls[i].net)})
          => (result = NilErr /\ CalledNets = networks)

\* C7, its case: netA exists, netB does not; one call each, the first
\* absorbed, the second a success.
C7_Witness ==
    /\ CreateDone
    /\ networks = <<"netA", "netB">>
    /\ Len(calls) = 2
    /\ calls[1] = [net |-> "netA", err |-> ExistsMsg("netA")]
    /\ calls[2] = [net |-> "netB", err |-> NilErr]
    /\ result = NilErr

\* The active-endpoints answers of the remote.
ActiveMsgs == {ActiveMsg(n) : n \in NetNames}

\* C8: removeNetworks never stops at, nor returns, a has-active-endpoints
\* answer: the call for the next declared network follows it; when every
\* failure is of that kind the result is nil and every declared network
\* was called.
C8_RemoveAbsorbsActiveEndpoints ==
    /\ (netOp = "remove") => IsPrefix(CalledNets, networks)
    /\ RemoveDone =>
          /\ \A i \in 1..Len(calls) :
                (calls[i].err \in ActiveMsgs) =>
                    /\ result # calls[i].err
                    /\ (i < Len(networks)) => (Len(calls) > i)
          /\ (\A i \in 1..Len(calls) :
                calls[i].err \in {NilErr} \cup ActiveMsgs)
                => (result = NilErr /\ CalledNets = networks)

\* C8, its case: the first network has active endpoints, the second is
\* removed, and the whole operation succeeded.
C8_Witness ==
    /\ RemoveDone
    /\ Len(networks) = 2
    /\ Len(calls) = 2
    /\ calls[1].err = ActiveMsg(networks[1])
    /\ calls[2].err = NilErr
    /\ result = NilErr

\* C9: neither operation fails on partial prior state: createNetworks does
\* not return the already-exists answer for a declared network, and
\* removeNetworks does not return the not-found answer for a declared
\* network that is already gone.
C9_TolerantOfPriorState ==
    /\ CreateDone =>
          \A i \in 1..Len(calls) :
              (calls[i].err = ExistsMsg(calls[i].net)) => result # calls[i].err
    /\ RemoveDone =>
          \A i \in 1..Len(calls) :
              (calls[i].err = NotFoundMsg(calls[i].net)) => result # calls[i].err

\* The benign conflict of each operation, as the remote words it.
BenignConflict(op, n, err) ==
    \/ op = "create" /\ err = ExistsMsg(n)
    \/ op = "remove" /\ err \in ActiveMsgs

\* C10: a remote failure that is not the operation's own benign conflict
\* is the last call the operation issues and is the error it returns; so a
\* nil result means every failure was a benign conflict.
C10_OtherFailureAborts ==
    \A i \in 1..Len(calls) :
        (calls[i].err # NilErr /\ ~BenignConflict(netOp, calls[i].net, calls[i].err))
            => (i = Len(calls) /\ netState = "done" /\ result = calls[i].err)

\* C10, its case: the create call for the first of two networks is answered
\* "already exists" for the other network; the operation stopped there.
C10_Witness ==
    /\ CreateDone
    /\ Len(networks) = 2
    /\ Len(calls) = 1
    /\ calls[1].net # "netB"
    /\ calls[1].err = ExistsMsg("netB")
    /\ result = ExistsMsg("netB")

(***************************************************************************)
(* Properties of the image puller.                                         *)
(***************************************************************************)

\* pullImage has returned from the inspection of the map after io.EOF.
PullInspected ==
    pullState = "done" /\ pullResult.kind \in {"nil", "pull-failed"}

\* Every item of the stream decodes.
CleanStream == \A i \in 1..Len(stream) : stream[i].kind \in {"object", "null"}

\* C11: after the stream is exhausted, the last successfully decoded record
\* alone decides: pullImage fails, with that record's error value, if and
\* only if that record has the error field, whatever the records before it
\* held.
C11_LastRecordDecides ==
    PullInspected =>
        IF pullPos > 0 /\ stream[pullPos].error # Absent
          THEN pullResult = PullRes("pull-failed", stream[pullPos].error)
          ELSE pullResult = PullRes("nil", "")

\* C12: for a stream that decodes to its end, pullImage reads all of it;
\* if the terminal record has an error field it fails with that field's
\* value, and if no record has an error field (the empty stream too) it
\* succeeds.
C12_TerminalErrorSurfaces ==
    (pullState = "done" /\ pullResult.kind # "open-error" /\ CleanStream) =>
        /\ pullPos = Len(stream)
        /\ PullInspected
        /\ (pullPos > 0 /\ stream[pullPos].error # Absent) =>
              (pullResult = PullRes("pull-failed", stream[pullPos].error))
        /\ (\A i \in 1..Len(stream) : stream[i].error = Absent) =>
              (pullResult = PullRes("nil", ""))

\* C12, its case: two records with different error values; the pull failed
\* with the value of the terminal one.
C12_Witness ==
    /\ pullState = "done"
    /\ Len(stream) = 2
    /\ stream[1].error = "unauthorized"
    /\ stream[2].error = "no such image"
    /\ pullResult = PullRes("pull-failed", "no such image")

\* C13: the loop never reads past an item that fails to decode; at the
\* first such item pullImage returns the decode error, whatever the map
\* holds from earlier records; the inspection of the map is reached only
\* through io.EOF, with the whole stream decoded.
C13_DecodeErrorFailsAtOnce ==
    /\ \A i \in 1..pullPos : stream[i].kind \in {"object", "null"}
    /\ progress = pullPos
    /\ (pullState = "done" /\ pullResult.kind # "open-error") =>
          /\ (~CleanStream) =>
                /\ stream[pullPos + 1].kind \in {"bad", "aborted"}
                /\ pullResult.kind \in {"decode-error", "cancelled"}
          /\ PullInspected => (CleanStream /\ pullPos = Len(stream))

\* C13, its case: a record with an error field, then malformed bytes, then
\* one more record: the result is the decode error and the third item was
\* never read.
C13_Witness ==
    /\ pullState = "done"
    /\ Len(stream) = 3
    /\ stream[1].error = "no such image"
    /\ stream[2] = BadItem
    /\ stream[3].kind = "object"
    /\ pullPos = 1
    /\ m.error = "no such image"
    /\ pullResult = PullRes("decode-error", "")

\* C14: a context cancelled while pullImage reads the stream aborts the
\* pull: pullImage returns a cancellation failure, having consumed at most
\* the record it was decoding when the context was cancelled.
C14_CancelAbortsPull ==
    (pullState = "done" /\ pullCancelPos >= 0) =>
        (pullResult.kind = "cancelled" /\ pullPos <= pullCancelPos + 1)

(***************************************************************************)
(* Properties of the timeout resolver and the lifecycle controller.        *)
(***************************************************************************)

\* The time left is positive: the deadline is ahead.
DeadlineAhead(l) == l.sec > 0 \/ (l.sec = 0 /\ l.nsec > 0)

\* C15: resolveTimeout returns 10 for a context with no deadline; for a
\* deadline ahead, the floor of the time left in whole seconds, a
\* non-negative integer; for a deadline reached or passed it stays blocked
\* while the context is not done and then returns the context's error,
\* never a timeout with no error.
C15_ResolveTimeout ==
    /\ (sdState = "blocked") => (hasDeadline /\ ~DeadlineAhead(left))
    /\ (hasDeadline /\ ~DeadlineAhead(left) /\ ctxErr = "none") =>
          (sdState = "blocked" /\ tmResult = NoTimeout)
    /\ (tmResult # NoTimeout) =>
          /\ (~hasDeadline) => (tmResult = [timeout |-> 10, err |-> "nil"])
          /\ (hasDeadline /\ DeadlineAhead(left)) =>
                /\ tmResult.err = "nil"
                /\ tmResult.timeout >= 0
                /\ tmResult.timeout = left.sec
          /\ (hasDeadline /\ ~DeadlineAhead(left)) =>
                /\ tmResult.err \in {"context canceled",
                                     "context deadline exceeded"}
                /\ tmResult.err = ctxErr

\* The remote calls issued by the i-th operation that returned.
CallsOf(i) ==
    SubSeq(remoteLog, opLog[i].at + 1,
           IF i < Len(opLog) THEN opLog[i + 1].at ELSE Len(remoteLog))

\* C16: a shutdown whose timeout resolution failed returned that error and
\* issued no remote call; any other shutdown issued exactly one remote
\* stop, for the container's name and with the resolved timeout, and
\* returned the remote's result.
C16_ShutdownResolvesFirst ==
    \A i \in 1..Len(opLog) :
        (opLog[i].op = "shutdown") =>
            IF opLog[i].tm.err # "nil"
              THEN /\ CallsOf(i) = <<>>
                   /\ opLog[i].err = opLog[i].tm.err
              ELSE /\ Len(CallsOf(i)) = 1
                   /\ CallsOf(i)[1].api = "ContainerStop"
                   /\ CallsOf(i)[1].name = ContainerName
                   /\ CallsOf(i)[1].timeout = opLog[i].tm.timeout
                   /\ opLog[i].err = CallsOf(i)[1].ans.err

\* C16, its case: a failed resolution and no call, then a shutdown with one
\* whole second left whose stop the remote refused.
C16_Witness ==
    /\ Len(opLog) = 2
    /\ opLog[1].op = "shutdown"
    /\ opLog[1].err = "context canceled"
    /\ opLog[2].op = "shutdown"
    /\ opLog[2].tm = [timeout |-> 1, err |-> "nil"]
    /\ opLog[2].err = "conflict"
    /\ Len(remoteLog) = 1
    /\ remoteLog[1].timeout = 1

\* The remote call each operation stands for, and its options.
ExpectedApi(op) ==
    CASE op = "create" -> "ContainerCreate"
      [] op = "start" -> "ContainerStart"
      [] op = "inspect" -> "ContainerInspect"
      [] op = "terminate" -> "ContainerKill"
      [] op = "remove" -> "ContainerRemove"
ExpectedOpt(op) ==
    CASE op = "create" -> "config,hostConfig,networkingConfig"
      [] op = "terminate" -> "signal="
      [] op = "remove" -> "RemoveVolumes,Force"
      [] OTHER -> ""

\* C18: each create, start, inspect, terminate and remove that returned
\* issued exactly one remote call, the one it stands for, for the
\* container's name, and returned the remote's error (and, for inspect,
\* the remote's snapshot) as it was; whatever operations came before.
C18_SingleRoundTrip ==
    \A i \in 1..Len(opLog) :
        (opLog[i].op \in {"create", "start", "inspect", "terminate", "remove"})
            => /\ Len(CallsOf(i)) = 1
               /\ CallsOf(i)[1].api = ExpectedApi(opLog[i].op)
               /\ CallsOf(i)[1].opt = ExpectedOpt(opLog[i].op)
               /\ CallsOf(i)[1].name = ContainerName
               /\ opLog[i].err = CallsOf(i)[1].ans.err
               /\ (opLog[i].op = "inspect") =>
                     (opLog[i].body = CallsOf(i)[1].ans.body)

\* C18, its case: remove, create and start in that order, the first two
\* refused by the remote: three calls, no retry, each error passed on.
C18_Witness ==
    /\ Len(opLog) = 3
    /\ opLog[1].op = "remove" /\ opLog[1].err = "no such container"
    /\ opLog[2].op = "create" /\ opLog[2].err = "conflict"
    /\ opLog[3].op = "start" /\ opLog[3].err = "nil"
    /\ Len(remoteLog) = 3

(***************************************************************************)
(* More properties of the event relay.                                     *)
(***************************************************************************)

\* C17: when the context is already cancelled as the task makes its
\* start-up check, the task exits there: no record is ever decoded or
\* delivered, and the task's exit closes the closed signal.
C17_CancelledAtStartNoDecode ==
    (cancelPc \in {"idle", "start"}) =>
        /\ pos = 0
        /\ delivered = <<>>
        /\ event = 0
        /\ pc \in {"idle", "start", "closing", "exited"}
        /\ TaskReturned => (closed = 1 /\ exitReason = "ctx-start")

\* C17, its case: the context was cancelled before events was called, the
\* feed has records and a consumer is receiving; the task has exited.
C17_Witness ==
    /\ cancelPc = "idle"
    /\ pc = "exited"
    /\ Len(feed) = 2
    /\ receiving
    /\ pos = 0
    /\ closed = 1

\* C19: once the closed signal is closed no record is delivered any more,
\* and the event channel itself is never closed.
C19_NoDeliveryAfterClosed ==
    /\ [][(closed >= 1) => (delivered' = delivered)]_vars
    /\ [](~eventsqClosed)

\* C19, its case: the task has ended at end-of-stream after a delivery and
\* a consumer waits on the event channel, which is still open.
C19_Witness ==
    /\ closed = 1
    /\ exitReason = "eof"
    /\ Len(delivered) = 1
    /\ receiving
    /\ ~eventsqClosed

\* C20: a task that ended on end-of-stream or on a decode error has
\* delivered every record of the feed; only a cancelled context ends the
\* task otherwise, and then at most one decoded record is undelivered.
C20_NoLossUnlessCancelled ==
    TaskReturned =>
        /\ (exitReason \in {"eof", "decode-error"}) => (delivered = feed)
        /\ (exitReason \notin {"eof", "decode-error"}) => ctxDone
        /\ (~ctxDone) => (delivered = feed)
        /\ pos - Len(delivered) <= 1

\* C20, its case: two records, then malformed framing, no cancellation:
\* both records were delivered before the task ended.
C20_Witness ==
    /\ pc = "exited"
    /\ exitReason = "decode-error"
    /\ ~ctxDone
    /\ Len(feed) = 2
    /\ delivered = feed

====
